---- MODULE Spec2Model ----
(***************************************************************************)
(* brewpyenv, util.mjs: the pure classification / extraction / command     *)
(* building functions and the asynchronous migration stages that drive     *)
(* the external command gateway ($ of bun), the logger and appendFile.     *)
(*                                                                         *)
(* Strings the code inspects (startsWith, replace, basename, join, split)  *)
(* are sequences of one-character strings; strings the code only copies    *)
(* are TLA+ strings.  A template literal is the tuple of its parts: the     *)
(* literal chunks with the interpolated values between them.               *)
(***************************************************************************)
EXTENDS Integers, Sequences, FiniteSets, TLC

VARIABLES
    args,     \* the arguments of the function under execution
    pc,       \* position of that function: "call", an await point, "done", "rejected"
    i,        \* loop index of a for..of loop (1-based position of the next item)
    trace,    \* observable events in order: gateway calls, their exits, log messages, appends
    running,  \* gateway calls launched and not yet settled (indices into the calls)
    locals,   \* the local variables of the function (formulaList, formulae)
    result    \* the returned value once pc = "done"

vars == <<args, pc, i, trace, running, locals, result>>

(***************************************************************************)
(* Bounds of the model.                                                    *)
(***************************************************************************)
MaxDeps == 2
MaxPkgs == 2

SeqsUpTo(S, n) == UNION {[1..k -> S] : k \in 0..n}

Undefined == "undefined"

(***************************************************************************)
(* Strings as character sequences.                                         *)
(***************************************************************************)
PythonAt == <<"p", "y", "t", "h", "o", "n", "@">>

Py39 == PythonAt \o <<"3", ".", "9">>
Py38 == PythonAt \o <<"3", ".", "8">>
Openssl == <<"o", "p", "e", "n", "s", "s", "l">>
XPy39 == <<"x">> \o Py39

DepNames == {Py39, Py38, Openssl, XPy39}

\* String.prototype.startsWith
StartsWith(s, pre) ==
    /\ Len(s) >= Len(pre)
    /\ SubSeq(s, 1, Len(pre)) = pre

\* Array.prototype.filter with the predicate (dep) => dep.startsWith("python@")
RECURSIVE FilterPython(_)
FilterPython(deps) ==
    IF deps = <<>> THEN <<>>
    ELSE IF StartsWith(Head(deps), PythonAt)
         THEN <<Head(deps)>> \o FilterPython(Tail(deps))
         ELSE FilterPython(Tail(deps))

\* Array.prototype.some with the same predicate
SomePython(deps) == \E k \in 1..Len(deps) : StartsWith(deps[k], PythonAt)

\* Array.prototype.flatMap((pkg) => pkg.dependencies.filter(...))
RECURSIVE FlatMapPython(_)
FlatMapPython(packages) ==
    IF packages = <<>> THEN <<>>
    ELSE FilterPython(Head(packages).dependencies) \o FlatMapPython(Tail(packages))

Contains(s, e) == \E k \in 1..Len(s) : s[k] = e

\* [...new Set(xs)]: a Set iterates in insertion order, a repeated add is a no-op
RECURSIVE SetSpread(_, _)
SetSpread(xs, acc) ==
    IF xs = <<>> THEN acc
    ELSE SetSpread(Tail(xs), IF Contains(acc, Head(xs)) THEN acc ELSE Append(acc, Head(xs)))

extractPythonVersionsNoDedup(packages) == FlatMapPython(packages)

extractPythonVersions(packages) ==
    LET versions == FlatMapPython(packages)
    IN  SetSpread(versions, <<>>)

RECURSIVE FilterFormulae(_)
FilterFormulae(formulae) ==
    IF formulae = <<>> THEN <<>>
    ELSE IF SomePython(Head(formulae).dependencies)
         THEN <<Head(formulae)>> \o FilterFormulae(Tail(formulae))
         ELSE FilterFormulae(Tail(formulae))

ProjectFormulaFiltered(formula) ==
    [name |-> formula.name,
     version |-> formula.versions.stable,
     dependencies |-> FilterPython(formula.dependencies)]

ProjectFormula(formula) ==
    [name |-> formula.name,
     version |-> formula.versions.stable,
     dependencies |-> formula.dependencies]

identifyBrewPythonPackages(formulae) ==
    LET kept == FilterFormulae(formulae)
    IN  [k \in 1..Len(kept) |-> ProjectFormula(kept[k])]

(***************************************************************************)
(* Inputs of the pure functions.                                           *)
(***************************************************************************)
FormulaIds == {<<"certbot", "2.0.0">>, <<"ffmpeg", "4.4">>}

DepLists == SeqsUpTo(DepNames, MaxDeps)

FormulaDepLists == SeqsUpTo({Py39, Openssl, XPy39}, MaxDeps)

Formulae ==
    {[name |-> id[1], versions |-> [stable |-> id[2]], dependencies |-> d] :
        id \in FormulaIds, d \in FormulaDepLists}

Packages ==
    {[name |-> id[1], version |-> id[2], dependencies |-> d] :
        id \in {<<"certbot", "2.0.0">>}, d \in DepLists}

(***************************************************************************)
(* extractPythonVersions(packages)                                         *)
(***************************************************************************)
ExtractInit ==
    /\ args \in {[packages |-> p] : p \in SeqsUpTo(Packages, MaxPkgs)}
    /\ pc = "call"
    /\ i = 0
    /\ trace = <<>>
    /\ running = {}
    /\ locals = <<>>
    /\ result = Undefined

ExtractCall ==
    /\ pc = "call"
    /\ result' = extractPythonVersions(args.packages)
    /\ pc' = "done"
    /\ UNCHANGED <<args, i, trace, running, locals>>

ExtractSpec == ExtractInit /\ [][ExtractCall]_vars

\* The flattened dependency entries of the input, package by package, entry by entry.
RECURSIVE AllDeps(_)
AllDeps(packages) ==
    IF packages = <<>> THEN <<>>
    ELSE Head(packages).dependencies \o AllDeps(Tail(packages))

HasPythonPrefix(d) == Len(d) >= 7 /\ \A k \in 1..7 : d[k] = PythonAt[k]

FirstIndex(s, e) == CHOOSE k \in 1..Len(s) : s[k] = e /\ \A j \in 1..(k - 1) : s[j] # e

\* C1: extractPythonVersions returns exactly the entries starting with python@,
\* each once, ordered by first occurrence over packages then dependencies, and
\* nothing else; it is empty when no package has such an entry.
C1_ExtractFirstOccurrence ==
    pc = "done" =>
        LET all == AllDeps(args.packages)
        IN  /\ \A k \in 1..Len(result) :
                  HasPythonPrefix(result[k]) /\ Contains(all, result[k])
            /\ \A k \in 1..Len(all) :
                  HasPythonPrefix(all[k]) => Contains(result, all[k])
            /\ \A j, k \in 1..Len(result) : j # k => result[j] # result[k]
            /\ \A j, k \in 1..Len(result) :
                  j < k => FirstIndex(all, result[j]) < FirstIndex(all, result[k])
            /\ ((\A k \in 1..Len(all) : ~HasPythonPrefix(all[k])) => result = <<>>)

\* Two packages repeat python@3.9 around python@3.8 and a non-python entry.
C1_Witness ==
    /\ pc = "done"
    /\ Len(args.packages) = 2
    /\ args.packages[1].dependencies = <<Openssl, Py39>>
    /\ args.packages[2].dependencies = <<Py38, Py39>>
    /\ result = <<Py39, Py38>>

(***************************************************************************)
(* identifyBrewPythonPackages(formulae)                                    *)
(***************************************************************************)
IdentifyInit ==
    /\ args \in {[formulae |-> f] : f \in SeqsUpTo(Formulae, MaxPkgs)}
    /\ pc = "call"
    /\ i = 0
    /\ trace = <<>>
    /\ running = {}
    /\ locals = <<>>
    /\ result = Undefined

IdentifyCall ==
    /\ pc = "call"
    /\ result' = identifyBrewPythonPackages(args.formulae)
    /\ pc' = "done"
    /\ UNCHANGED <<args, i, trace, running, locals>>

IdentifySpec == IdentifyInit /\ [][IdentifyCall]_vars

DependsOnPython(formula) ==
    \E k \in 1..Len(formula.dependencies) : HasPythonPrefix(formula.dependencies[k])

\* The positions of the formulae that depend on python@, in input order.
PythonPositions(formulae) == {k \in 1..Len(formulae) : DependsOnPython(formulae[k])}

\* C2: identifyBrewPythonPackages returns, in input order, one record
\* {name, version = stable version, dependencies = full list} per formula with
\* at least one python@ dependency and none for any other formula.
C2_IdentifyExactlyPythonFormulae ==
    pc = "done" =>
        LET fs == args.formulae
            pos == PythonPositions(fs)
        IN  /\ Len(result) = Cardinality(pos)
            /\ \A k \in pos :
                  LET r == result[Cardinality({j \in pos : j <= k})]
                  IN  /\ r.name = fs[k].name
                      /\ r.version = fs[k].versions.stable
                      /\ r.dependencies = fs[k].dependencies
            /\ \A k \in 1..Len(result) :
                  \E j \in 1..Len(result[k].dependencies) :
                      HasPythonPrefix(result[k].dependencies[j])
            /\ (fs = <<>> => result = <<>>)

\* A python formula with a non-python dependency kept, after a dropped formula.
C2_Witness ==
    /\ pc = "done"
    /\ Len(args.formulae) = 2
    /\ ~DependsOnPython(args.formulae[1])
    /\ args.formulae[2].dependencies = <<Openssl, Py39>>
    /\ result = <<[name |-> args.formulae[2].name,
                   version |-> args.formulae[2].versions.stable,
                   dependencies |-> <<Openssl, Py39>>]>>

(***************************************************************************)
(* node:path (posix) as used by generateSymlinkCommands.  A path is a      *)
(* sequence of characters; the literals "versions", "-brew", "ln -s -f "   *)
(* are single tokens, which hold no separator and are no dot segment.      *)
(***************************************************************************)
MaxDirs == 2
MaxRootLen == 3

Max(S) == CHOOSE x \in S : \A y \in S : y <= x

\* path.basename(path): trailing separators are dropped, then everything up to
\* the last remaining separator; "" when the path holds separators only.
basenameKeepTrailing(path) ==
    LET slashes == {k \in 1..Len(path) : path[k] = "/"}
        start == IF slashes = {} THEN 1 ELSE Max(slashes) + 1
    IN  SubSeq(path, start, Len(path))

basename(path) ==
    LET nonSlash == {k \in 1..Len(path) : path[k] # "/"}
    IN  IF nonSlash = {} THEN <<>>
        ELSE LET end == Max(nonSlash)
                 slashes == {k \in 1..end : path[k] = "/"}
                 start == IF slashes = {} THEN 1 ELSE Max(slashes) + 1
             IN  SubSeq(path, start, end)

\* The segments of a path between separators (empty segments included).
RECURSIVE Segments(_, _)
Segments(path, cur) ==
    IF path = <<>> THEN <<cur>>
    ELSE IF Head(path) = "/"
         THEN <<cur>> \o Segments(Tail(path), <<>>)
         ELSE Segments(Tail(path), Append(cur, Head(path)))

\* normalizeString: "" and "." segments are dropped, ".." removes the segment
\* before it, or is kept (relative path) or dropped (absolute path) at the top.
RECURSIVE NormalizeSegments(_, _, _)
NormalizeSegments(segs, res, allowAboveRoot) ==
    IF segs = <<>> THEN res
    ELSE LET seg == Head(segs)
             rest == Tail(segs)
         IN  IF seg = <<>> \/ seg = <<".">>
             THEN NormalizeSegments(rest, res, allowAboveRoot)
             ELSE IF seg = <<".", ".">>
             THEN IF res # <<>> /\ res[Len(res)] # <<".", ".">>
                  THEN NormalizeSegments(rest, SubSeq(res, 1, Len(res) - 1), allowAboveRoot)
                  ELSE IF allowAboveRoot
                       THEN NormalizeSegments(rest, Append(res, seg), allowAboveRoot)
                       ELSE NormalizeSegments(rest, res, allowAboveRoot)
             ELSE NormalizeSegments(rest, Append(res, seg), allowAboveRoot)

RECURSIVE JoinSegments(_)
JoinSegments(segs) ==
    IF segs = <<>> THEN <<>>
    ELSE IF Len(segs) = 1 THEN Head(segs)
         ELSE Head(segs) \o <<"/">> \o JoinSegments(Tail(segs))

\* path.normalize(path)
normalize(path) ==
    LET isAbsolute == path # <<>> /\ path[1] = "/"
        trailingSeparator == path # <<>> /\ path[Len(path)] = "/"
        body == JoinSegments(NormalizeSegments(Segments(path, <<>>), <<>>, ~isAbsolute))
    IN  IF body = <<>>
        THEN IF isAbsolute THEN <<"/">>
             ELSE IF trailingSeparator THEN <<".", "/">> ELSE <<".">>
        ELSE LET tailed == IF trailingSeparator THEN body \o <<"/">> ELSE body
             IN  IF isAbsolute THEN <<"/">> \o tailed ELSE tailed

\* The arguments of path.join joined by "/" without normalisation.
RECURSIVE Concat(_)
Concat(parts) ==
    IF parts = <<>> THEN <<>>
    ELSE IF Tail(parts) = <<>> THEN Head(parts)
         ELSE Head(parts) \o <<"/">> \o Concat(Tail(parts))

\* path.join(...parts): the non-empty parts joined by "/", then normalised.
join(parts) ==
    LET nonEmpty == SelectSeq(parts, LAMBDA p : p # <<>>)
    IN  IF nonEmpty = <<>> THEN <<".">> ELSE normalize(Concat(nonEmpty))

symlinkCommand(versionPath, pyenvRoot) ==
    LET versionName == basename(versionPath)
    IN  <<"ln -s -f ">> \o versionPath \o <<" ">>
            \o join(<<pyenvRoot, <<"versions">>, versionName \o <<"-brew">>>>)

generateSymlinkCommands(pythonDirs, pyenvRoot) ==
    [k \in 1..Len(pythonDirs) |-> symlinkCommand(pythonDirs[k], pyenvRoot)]

(***************************************************************************)
(* generateSymlinkCommands(pythonDirs, pyenvRoot)                          *)
(***************************************************************************)
SourceDirs ==
    {<<"/", "a", "/", "b">>, <<"/", "a", "/", "c">>, <<"/", "b", "/", "c">>,
     <<"/", "a", "/", "b", "/">>, <<"b">>, <<"/">>, <<>>, <<"/", "a", "/", ".", ".">>}

Roots == SeqsUpTo({"/", ".", "a"}, MaxRootLen)

SymlinkCmdsInit ==
    /\ args \in {[pythonDirs |-> d, pyenvRoot |-> r] :
                    d \in SeqsUpTo(SourceDirs, MaxDirs), r \in Roots}
    /\ pc = "call"
    /\ i = 0
    /\ trace = <<>>
    /\ running = {}
    /\ locals = <<>>
    /\ result = Undefined

SymlinkCmdsCall ==
    /\ pc = "call"
    /\ result' = generateSymlinkCommands(args.pythonDirs, args.pyenvRoot)
    /\ pc' = "done"
    /\ UNCHANGED <<args, i, trace, running, locals>>

SymlinkCmdsSpec == SymlinkCmdsInit /\ [][SymlinkCmdsCall]_vars

\* b is the last component of path: a separator-free slice of path that starts
\* the path or follows a separator, is followed by separators only, and is empty
\* only when the path holds nothing but separators.
IsBasename(path, b) ==
    /\ \A k \in 1..Len(b) : b[k] # "/"
    /\ \E s \in 1..(Len(path) + 1) :
          /\ s + Len(b) - 1 <= Len(path)
          /\ SubSeq(path, s, s + Len(b) - 1) = b
          /\ (s = 1 \/ path[s - 1] = "/")
          /\ \A k \in (s + Len(b))..Len(path) : path[k] = "/"
    /\ (b = <<>> => \A k \in 1..Len(path) : path[k] = "/")

Slices(path) == {SubSeq(path, s, e) : s \in 1..(Len(path) + 1), e \in 0..Len(path)}

\* The command of the claim's template, root inserted as it is written.
TemplateCommand(path, root, b) ==
    <<"ln -s -f ">> \o path \o <<" ">> \o root
        \o <<"/", "versions", "/">> \o b \o <<"-brew">>

MatchesTemplate(cmd, path, root) ==
    \E b \in Slices(path) : IsBasename(path, b) /\ cmd = TemplateCommand(path, root, b)

\* A root written in normal form: non-empty, no trailing separator, no empty,
\* "." or ".." segment.
PlainRoot(root) ==
    /\ root # <<>>
    /\ root[Len(root)] # "/"
    /\ \A k \in 1..(Len(root) - 1) : ~(root[k] = "/" /\ root[k + 1] = "/")
    /\ \A k \in 1..Len(root) :
          (root[k] = "." /\ (k = 1 \/ root[k - 1] = "/"))
              => /\ k < Len(root)
                 /\ root[k + 1] # "/"
                 /\ ~(root[k + 1] = "." /\ (k + 1 = Len(root) \/ root[k + 2] = "/"))

\* C3 as stated: for every root the i-th command is the template with the root
\* inserted verbatim.
C3_TemplateForEveryRoot ==
    pc = "done" =>
        /\ Len(result) = Len(args.pythonDirs)
        /\ \A k \in 1..Len(result) :
              MatchesTemplate(result[k], args.pythonDirs[k], args.pyenvRoot)

\* C3 (amended): one command per source path, in input order, nothing merged or
\* dropped; for a root in normal form the i-th command is
\* ln -s -f <path_i> <root>/versions/<basename(path_i)>-brew.
C3_TemplateForPlainRoot ==
    pc = "done" =>
        /\ Len(result) = Len(args.pythonDirs)
        /\ (args.pythonDirs = <<>> => result = <<>>)
        /\ PlainRoot(args.pyenvRoot) =>
              \A k \in 1..Len(result) :
                  MatchesTemplate(result[k], args.pythonDirs[k], args.pyenvRoot)

\* The same path twice, whose basename needs the trailing separator dropped,
\* under an absolute root in normal form.
C3_Witness ==
    /\ pc = "done"
    /\ args.pyenvRoot = <<"/", "a">>
    /\ args.pythonDirs = <<<<"/", "a", "/", "b", "/">>, <<"/", "a", "/", "b", "/">>>>
    /\ result[1] = <<"ln -s -f ", "/", "a", "/", "b", "/", " ",
                     "/", "a", "/", "versions", "/", "b", "-brew">>
    /\ result[2] = result[1]

(***************************************************************************)
(* The asynchronous stages.  Every stage drives the command gateway $ of   *)
(* bun: a call launches an external process whose promise settles later,   *)
(* fulfilled when the process exits with status 0 and rejected (ShellError)*)
(* when it exits non-zero; redirecting stderr inside the command string    *)
(* and .quiet() change what is printed, not how the promise settles.  An   *)
(* await of a rejected promise throws, and no stage catches: the stage's   *)
(* own promise rejects.  Which way a process exits is the environment's    *)
(* choice.                                                                 *)
(***************************************************************************)
MaxItems == 3
MaxTextLen == 5
MaxMatches == 2

Call(cmd) == [kind |-> "call", body |-> cmd, ok |-> TRUE, out |-> <<>>]
Exit(n, ok, out) == [kind |-> "exit", body |-> <<n>>, ok |-> ok, out |-> out]
Log(msg) == [kind |-> "log", body |-> msg, ok |-> TRUE, out |-> <<>>]
AppendFile(path, content) ==
    [kind |-> "append", body |-> <<path, content>>, ok |-> TRUE, out |-> <<>>]
Appended(ok) == [kind |-> "appended", body |-> <<>>, ok |-> ok, out |-> <<>>]

OfKind(tr, kind) == SelectSeq(tr, LAMBDA e : e.kind = kind)

\* $.mock.calls: the commands handed to the gateway, in call order.
Calls == OfKind(trace, "call")

\* logger.info calls, in order.
Logs == OfKind(trace, "log")

Last(s) == s[Len(s)]

\* The exit event of the n-th gateway call.
ExitOf(n) ==
    trace[CHOOSE k \in 1..Len(trace) : trace[k].kind = "exit" /\ trace[k].body = <<n>>]

HasExited(n) == \E k \in 1..Len(trace) : trace[k].kind = "exit" /\ trace[k].body = <<n>>

AnyFailed == \E k \in 1..Len(trace) : trace[k].kind = "exit" /\ ~trace[k].ok

(***************************************************************************)
(* Command strings and log messages (template literals).                   *)
(***************************************************************************)
ListCmd == <<"brew list --formula">>
InfoCmd(formula) == <<"brew info ", formula, " --json=v2 2>/dev/null">>
UninstallCmd(version) == <<"brew uninstall --ignore-dependencies ", version, " 2>/dev/null">>
InstallCmd(pyVersion) == <<"pyenv install -s ", pyVersion, "">>
SymlinkCmd(cmd) == <<"", cmd, "">>
RehashCmd == <<"pyenv rehash">>
ReinstallCmd(name) == <<"brew reinstall ", name, " 2>/dev/null">>

UninstalledMsg(version) == <<"Uninstalled Brew-managed Python version: ", version, "">>
InstalledMsg == <<"Installed equivalent pyenv-managed Python versions.">>
SymlinkMsg(cmd) == <<"Executed symlink command: ", cmd, "">>
ReinstalledMsg(name) == <<"Reinstalled Brew package: ", name, "">>
ZshrcMsg == <<"Updated .zshrc to prioritize pyenv over Brew-managed Python.">>

zshrcContent ==
    <<"",
      "if command -v pyenv 1>/dev/null 2>&1; then",
      "  eval \"$(pyenv init --path)\"",
      "  eval \"$(pyenv init -)\"",
      "fi",
      "">>

\* String.prototype.replace(pattern, replacement) with a string pattern: the
\* first occurrence is replaced, the string is returned as is when there is none.
ReplaceFirst(s, pat, rep) ==
    LET at == {k \in 0..(Len(s) - Len(pat)) : SubSeq(s, k + 1, k + Len(pat)) = pat}
    IN  IF at = {} THEN s
        ELSE LET k == CHOOSE x \in at : \A y \in at : x <= y
             IN  SubSeq(s, 1, k) \o rep \o SubSeq(s, k + Len(pat) + 1, Len(s))

\* String.prototype.split("\n")
RECURSIVE SplitLines(_, _)
SplitLines(text, cur) ==
    IF text = <<>> THEN <<cur>>
    ELSE IF Head(text) = "\n"
         THEN <<cur>> \o SplitLines(Tail(text), <<>>)
         ELSE SplitLines(Tail(text), Append(cur, Head(text)))

\* .split("\n").filter(Boolean): the empty string is the only falsy string
formulaListKeepEmpty(text) == SplitLines(text, <<>>)

formulaList(text) == SelectSeq(SplitLines(text, <<>>), LAMBDA line : line # <<>>)

\* info.formulae[0]: undefined when the array is empty
FirstFormula(info) == IF info.formulae = <<>> THEN Undefined ELSE info.formulae[1]

(***************************************************************************)
(* What a process can print on exit.                                       *)
(***************************************************************************)
Texts == SeqsUpTo({"a", "b", "\n"}, MaxTextLen)

FormulaObjs == {"formula1", "formula2"}

\* stdout of brew info: JSON holding a formulae array, or text that is no JSON
InfoOutputs ==
    {[parsed |-> TRUE, formulae |-> fs] : fs \in SeqsUpTo(FormulaObjs, MaxMatches)}
        \cup {[parsed |-> FALSE, formulae |-> <<>>]}

Outputs(cmd, ok) ==
    IF ~ok THEN {<<>>}
    ELSE IF cmd = ListCmd THEN Texts
    ELSE IF cmd[1] = "brew info " THEN InfoOutputs
    ELSE {<<>>}

(***************************************************************************)
(* Arguments of the stages.                                                *)
(***************************************************************************)
VersionIds == {Py39, Py38, XPy39}

BrewPackages ==
    {[name |-> "certbot", version |-> "2.0.0", dependencies |-> <<Openssl, Py39>>],
     [name |-> "numpy", version |-> "1.21.0", dependencies |-> <<Py39>>]}

SymlinkCommands ==
    {symlinkCommand(<<"/", "a", "/", "b">>, <<"/", "a">>),
     symlinkCommand(<<"/", "a", "/", "c">>, <<"/", "a">>)}

ZshrcPaths == {"/Users/test/.zshrc", "/nonexistent/.zshrc"}

StageArgs ==
    {[fn |-> "uninstallBrewPythonVersions", pythonVersions |-> v] :
        v \in SeqsUpTo(VersionIds, MaxItems)}
    \cup {[fn |-> "reinstallBrewPackages", brewPackages |-> b] :
        b \in SeqsUpTo(BrewPackages, MaxItems)}
    \cup {[fn |-> "createSymlinks", symlinkCommands |-> c] :
        c \in SeqsUpTo(SymlinkCommands, MaxItems)}
    \cup {[fn |-> "installPyenvVersions", pythonVersions |-> v] :
        v \in SeqsUpTo(VersionIds, MaxItems)}
    \cup {[fn |-> "fetchBrewFormulae"]}
    \cup {[fn |-> "updateZshrc", zshrcPath |-> z] : z \in ZshrcPaths}

Init ==
    /\ args \in StageArgs
    /\ pc = "call"
    /\ i = 1
    /\ trace = <<>>
    /\ running = {}
    /\ locals = <<>>
    /\ result = Undefined

(***************************************************************************)
(* The gateway: a running process exits, and its promise settles.  A       *)
(* settlement is observed only while the stage is suspended at an await    *)
(* (or has ended); the continuation of a settled await runs before any     *)
(* further settlement is observed.                                         *)
(***************************************************************************)
Launch(cmd) ==
    /\ trace' = Append(trace, Call(cmd))
    /\ running' = running \cup {Len(Calls) + 1}

AwaitPcs == {"await", "awaitList", "awaitInfo", "awaitRehash", "awaitAll"}

\* Promise.allSettled(promises) is settled: no promise is pending
PromiseAllSettled == running = {}

\* Promise.all(promises) is settled: one promise rejected, or all fulfilled
PromiseAll == AnyFailed \/ running = {}

GatewayExit ==
    /\ pc \in AwaitPcs \cup {"done", "rejected"}
    /\ ~(pc = "awaitAll" /\ PromiseAll)
    /\ \E n \in running, ok \in BOOLEAN :
          \E out \in Outputs(Calls[n].body, ok) :
              /\ trace' = Append(trace, Exit(n, ok, out))
              /\ running' = running \ {n}
    /\ UNCHANGED <<args, pc, i, locals, result>>

\* The awaited call (the last one launched) has settled.
Settled == Len(Calls) > 0 /\ HasExited(Len(Calls))

AwaitSettled == pc = "await" /\ Settled

Throw ==
    /\ pc' = "rejected"
    /\ UNCHANGED <<args, i, trace, running, locals, result>>

(***************************************************************************)
(* uninstallBrewPythonVersions(pythonVersions)                             *)
(***************************************************************************)
uninstallInvokeLogFirst ==
    /\ args.fn = "uninstallBrewPythonVersions"
    /\ pc \in {"call", "loop"}
    /\ i <= Len(args.pythonVersions)
    /\ trace' = trace \o <<Log(UninstalledMsg(args.pythonVersions[i])),
                           Call(UninstallCmd(args.pythonVersions[i]))>>
    /\ running' = running \cup {Len(Calls) + 1}
    /\ pc' = "await"
    /\ UNCHANGED <<args, i, locals, result>>

uninstallInvoke ==
    /\ args.fn = "uninstallBrewPythonVersions"
    /\ pc \in {"call", "loop"}
    /\ i <= Len(args.pythonVersions)
    /\ Launch(UninstallCmd(args.pythonVersions[i]))
    /\ pc' = "await"
    /\ UNCHANGED <<args, i, locals, result>>

\* The continuation runs whichever way the process exited.
uninstallResumeSwallow ==
    /\ args.fn = "uninstallBrewPythonVersions"
    /\ AwaitSettled
    /\ trace' = Append(trace, Log(UninstalledMsg(args.pythonVersions[i])))
    /\ i' = i + 1
    /\ pc' = "loop"
    /\ UNCHANGED <<args, running, locals, result>>

uninstallResume ==
    /\ args.fn = "uninstallBrewPythonVersions"
    /\ AwaitSettled
    /\ IF ExitOf(Len(Calls)).ok
       THEN /\ trace' = Append(trace, Log(UninstalledMsg(args.pythonVersions[i])))
            /\ i' = i + 1
            /\ pc' = "loop"
            /\ UNCHANGED <<args, running, locals, result>>
       ELSE Throw

uninstallReturn ==
    /\ args.fn = "uninstallBrewPythonVersions"
    /\ pc \in {"call", "loop"}
    /\ i > Len(args.pythonVersions)
    /\ pc' = "done"
    /\ UNCHANGED <<args, i, trace, running, locals, result>>

(***************************************************************************)
(* reinstallBrewPackages(brewPackages)                                     *)
(***************************************************************************)
reinstallInvoke ==
    /\ args.fn = "reinstallBrewPackages"
    /\ pc \in {"call", "loop"}
    /\ i <= Len(args.brewPackages)
    /\ Launch(ReinstallCmd(args.brewPackages[i].name))
    /\ pc' = "await"
    /\ UNCHANGED <<args, i, locals, result>>

reinstallResume ==
    /\ args.fn = "reinstallBrewPackages"
    /\ AwaitSettled
    /\ IF ExitOf(Len(Calls)).ok
       THEN /\ trace' = Append(trace, Log(ReinstalledMsg(args.brewPackages[i].name)))
            /\ i' = i + 1
            /\ pc' = "loop"
            /\ UNCHANGED <<args, running, locals, result>>
       ELSE Throw

reinstallReturn ==
    /\ args.fn = "reinstallBrewPackages"
    /\ pc \in {"call", "loop"}
    /\ i > Len(args.brewPackages)
    /\ pc' = "done"
    /\ UNCHANGED <<args, i, trace, running, locals, result>>

(***************************************************************************)
(* createSymlinks(symlinkCommands)                                         *)
(***************************************************************************)
symlinkInvoke ==
    /\ args.fn = "createSymlinks"
    /\ pc \in {"call", "loop"}
    /\ i <= Len(args.symlinkCommands)
    /\ Launch(SymlinkCmd(args.symlinkCommands[i]))
    /\ pc' = "await"
    /\ UNCHANGED <<args, i, locals, result>>

\* try { await $`${cmd}` } catch {}: the failure is dropped and the loop goes on
symlinkResumeSwallow ==
    /\ args.fn = "createSymlinks"
    /\ AwaitSettled
    /\ trace' = Append(trace, Log(SymlinkMsg(args.symlinkCommands[i])))
    /\ i' = i + 1
    /\ pc' = "loop"
    /\ UNCHANGED <<args, running, locals, result>>

symlinkResume ==
    /\ args.fn = "createSymlinks"
    /\ AwaitSettled
    /\ IF ExitOf(Len(Calls)).ok
       THEN /\ trace' = Append(trace, Log(SymlinkMsg(args.symlinkCommands[i])))
            /\ i' = i + 1
            /\ pc' = "loop"
            /\ UNCHANGED <<args, running, locals, result>>
       ELSE Throw

rehashInvokeEarly ==
    /\ args.fn = "createSymlinks"
    /\ pc \in {"call", "loop"}
    /\ Launch(RehashCmd)
    /\ pc' = "awaitRehash"
    /\ UNCHANGED <<args, i, locals, result>>

rehashInvoke ==
    /\ args.fn = "createSymlinks"
    /\ pc \in {"call", "loop"}
    /\ i > Len(args.symlinkCommands)
    /\ Launch(RehashCmd)
    /\ pc' = "awaitRehash"
    /\ UNCHANGED <<args, i, locals, result>>

rehashResume ==
    /\ args.fn = "createSymlinks"
    /\ pc = "awaitRehash"
    /\ Settled
    /\ IF ExitOf(Len(Calls)).ok
       THEN /\ pc' = "done"
            /\ UNCHANGED <<args, i, trace, running, locals, result>>
       ELSE Throw

(***************************************************************************)
(* installPyenvVersions(pythonVersions)                                    *)
(***************************************************************************)
pyVersionOf(version) == ReplaceFirst(version, PythonAt, <<>>)

\* pythonVersions.map: one promise per version, created in array order
installMap ==
    /\ args.fn = "installPyenvVersions"
    /\ pc \in {"call", "map"}
    /\ i <= Len(args.pythonVersions)
    /\ Launch(InstallCmd(pyVersionOf(args.pythonVersions[i])))
    /\ i' = i + 1
    /\ pc' = "map"
    /\ UNCHANGED <<args, locals, result>>

\* await Promise.all(pyenvInstallPromises)
installAwaitAll ==
    /\ args.fn = "installPyenvVersions"
    /\ pc \in {"call", "map"}
    /\ i > Len(args.pythonVersions)
    /\ pc' = "awaitAll"
    /\ UNCHANGED <<args, i, trace, running, locals, result>>

installResume ==
    /\ args.fn = "installPyenvVersions"
    /\ pc = "awaitAll"
    /\ PromiseAll
    /\ IF AnyFailed
       THEN Throw
       ELSE /\ trace' = Append(trace, Log(InstalledMsg))
            /\ pc' = "done"
            /\ UNCHANGED <<args, i, running, locals, result>>

(***************************************************************************)
(* fetchBrewFormulae()                                                     *)
(***************************************************************************)
fetchList ==
    /\ args.fn = "fetchBrewFormulae"
    /\ pc = "call"
    /\ Launch(ListCmd)
    /\ pc' = "awaitList"
    /\ UNCHANGED <<args, i, locals, result>>

fetchListResume ==
    /\ args.fn = "fetchBrewFormulae"
    /\ pc = "awaitList"
    /\ Settled
    /\ LET e == ExitOf(Len(Calls))
       IN  IF e.ok
           THEN /\ locals' = [formulaList |-> formulaList(e.out), formulae |-> <<>>]
                /\ pc' = "loop"
                /\ UNCHANGED <<args, i, trace, running, result>>
           ELSE Throw

fetchInfoInvoke ==
    /\ args.fn = "fetchBrewFormulae"
    /\ pc = "loop"
    /\ i <= Len(locals.formulaList)
    /\ Launch(InfoCmd(locals.formulaList[i]))
    /\ pc' = "awaitInfo"
    /\ UNCHANGED <<args, i, locals, result>>

\* formulae.push(info.formulae[0])
PushFormula(formulae, info) == Append(formulae, FirstFormula(info))

\* try { ... } catch { continue }: a name whose info call fails is passed over
fetchInfoResumeSkip ==
    /\ args.fn = "fetchBrewFormulae"
    /\ pc = "awaitInfo"
    /\ Settled
    /\ LET e == ExitOf(Len(Calls))
       IN  /\ locals' = IF e.ok /\ e.out.parsed
                        THEN [locals EXCEPT !.formulae = PushFormula(@, e.out)]
                        ELSE locals
           /\ i' = i + 1
           /\ pc' = "loop"
           /\ UNCHANGED <<args, trace, running, result>>

fetchInfoResume ==
    /\ args.fn = "fetchBrewFormulae"
    /\ pc = "awaitInfo"
    /\ Settled
    /\ LET e == ExitOf(Len(Calls))
       IN  IF e.ok /\ e.out.parsed
           THEN /\ locals' = [locals EXCEPT !.formulae = PushFormula(@, e.out)]
                /\ i' = i + 1
                /\ pc' = "loop"
                /\ UNCHANGED <<args, trace, running, result>>
           ELSE Throw

fetchReturn ==
    /\ args.fn = "fetchBrewFormulae"
    /\ pc = "loop"
    /\ i > Len(locals.formulaList)
    /\ result' = locals.formulae
    /\ pc' = "done"
    /\ UNCHANGED <<args, i, trace, running, locals>>

(***************************************************************************)
(* updateZshrc(zshrcPath)                                                  *)
(***************************************************************************)
zshrcAppend ==
    /\ args.fn = "updateZshrc"
    /\ pc = "call"
    /\ trace' = Append(trace, AppendFile(args.zshrcPath, zshrcContent))
    /\ pc' = "awaitAppend"
    /\ UNCHANGED <<args, i, running, locals, result>>

\* node:fs/promises appendFile settles: written, or failed (EACCES, ENOENT, ...)
appendFileSettle ==
    /\ pc = "awaitAppend"
    /\ Last(trace).kind = "append"
    /\ \E ok \in BOOLEAN : trace' = Append(trace, Appended(ok))
    /\ UNCHANGED <<args, pc, i, running, locals, result>>

zshrcResumeLogAlways ==
    /\ args.fn = "updateZshrc"
    /\ pc = "awaitAppend"
    /\ Last(trace).kind = "appended"
    /\ trace' = Append(trace, Log(ZshrcMsg))
    /\ pc' = IF Last(trace).ok THEN "done" ELSE "rejected"
    /\ UNCHANGED <<args, i, running, locals, result>>

zshrcResume ==
    /\ args.fn = "updateZshrc"
    /\ pc = "awaitAppend"
    /\ Last(trace).kind = "appended"
    /\ IF Last(trace).ok
       THEN /\ trace' = Append(trace, Log(ZshrcMsg))
            /\ pc' = "done"
            /\ UNCHANGED <<args, i, running, locals, result>>
       ELSE Throw

Next ==
    \/ GatewayExit
    \/ appendFileSettle
    \/ uninstallInvoke
    \/ uninstallResume
    \/ uninstallReturn
    \/ reinstallInvoke
    \/ reinstallResume
    \/ reinstallReturn
    \/ symlinkInvoke
    \/ symlinkResume
    \/ rehashInvoke
    \/ rehashResume
    \/ installMap
    \/ installAwaitAll
    \/ installResume
    \/ fetchList
    \/ fetchListResume
    \/ fetchInfoInvoke
    \/ fetchInfoResume
    \/ fetchReturn
    \/ zshrcAppend
    \/ zshrcResume

Spec == Init /\ [][Next]_vars

(***************************************************************************)
(* Properties of the stages.                                               *)
(***************************************************************************)
Ended == pc \in {"done", "rejected"}

FailedExits == SelectSeq(trace, LAMBDA e : e.kind = "exit" /\ ~e.ok)

\* The gateway calls and log messages of the run, in the order they happened.
CallsAndLogs == SelectSeq(trace, LAMBDA e : e.kind \in {"call", "log"})

SameEvent(a, b) == a.kind = b.kind /\ a.body = b.body

IsPrefixOf(a, b) ==
    /\ Len(a) <= Len(b)
    /\ \A k \in 1..Len(a) : SameEvent(a[k], b[k])

\* The number of gateway calls among the first k events.
CallsUpTo(k) == Len(OfKind(SubSeq(trace, 1, k), "call"))

\* Every call but the first is made after the call before it has exited.
OneAtATime ==
    \A k \in 1..Len(trace) :
        (trace[k].kind = "call" /\ CallsUpTo(k) > 1) =>
            \E j \in 1..(k - 1) :
                trace[j].kind = "exit" /\ trace[j].body = <<CallsUpTo(k) - 1>>

\* command 1, log 1, command 2, log 2, ...
Alternating(n, cmd(_), msg(_)) ==
    [k \in 1..(2 * n) |->
        IF k % 2 = 1 THEN Call(cmd((k + 1) \div 2)) ELSE Log(msg(k \div 2))]

ExpectedSymlinkRun ==
    LET cmds == args.symlinkCommands
        c(k) == <<"", cmds[k], "">>
        m(k) == <<"Executed symlink command: ", cmds[k], "">>
    IN  Alternating(Len(cmds), c, m) \o <<Call(<<"pyenv rehash">>)>>

ExpectedUninstallRun ==
    LET vs == args.pythonVersions
        c(k) == <<"brew uninstall --ignore-dependencies ", vs[k], " 2>/dev/null">>
        m(k) == <<"Uninstalled Brew-managed Python version: ", vs[k], "">>
    IN  Alternating(Len(vs), c, m)

ExpectedReinstallRun ==
    LET ps == args.brewPackages
        c(k) == <<"brew reinstall ", ps[k].name, " 2>/dev/null">>
        m(k) == <<"Reinstalled Brew package: ", ps[k].name, "">>
    IN  Alternating(Len(ps), c, m)

ExpectedLoopRun ==
    IF args.fn = "uninstallBrewPythonVersions" THEN ExpectedUninstallRun
    ELSE ExpectedReinstallRun

IsLoopStage == args.fn \in {"uninstallBrewPythonVersions", "reinstallBrewPackages"}

\* C5 as stated: each stage ends having issued exactly one command and one
\* message per input item, command 1, message 1, command 2, message 2, ...
C5_ExactlyOncePerItem ==
    (IsLoopStage /\ Ended) =>
        /\ Len(CallsAndLogs) = Len(ExpectedLoopRun)
        /\ IsPrefixOf(CallsAndLogs, ExpectedLoopRun)

\* C5 (amended): reinstallBrewPackages and uninstallBrewPythonVersions issue
\* command 1, message 1, command 2, message 2, ... in input order: no retry, no
\* gap, no duplicate, each command after the exit of the one before and each
\* message after the successful exit of its command; a stage whose commands all
\* succeed returns with exactly one command and one message per item, and a
\* stage that rejects stopped at the command that failed.
C5_OneCommandOneLogPerItem ==
    IsLoopStage =>
        /\ IsPrefixOf(CallsAndLogs, ExpectedLoopRun)
        /\ OneAtATime
        /\ \A k \in 1..Len(trace) :
              trace[k].kind = "log" =>
                  /\ k > 1
                  /\ trace[k - 1].kind = "exit"
                  /\ trace[k - 1].ok
                  /\ trace[k - 1].body = <<CallsUpTo(k)>>
        /\ (pc = "done" => Len(CallsAndLogs) = Len(ExpectedLoopRun))
        /\ ((Ended /\ ~AnyFailed) => pc = "done")
        /\ (pc = "rejected" =>
              /\ Len(CallsAndLogs) % 2 = 1
              /\ Last(trace).kind = "exit"
              /\ ~Last(trace).ok)

\* The reinstall stage returned after three packages, the first given twice.
C5_Witness ==
    /\ args.fn = "reinstallBrewPackages"
    /\ pc = "done"
    /\ Len(args.brewPackages) = 3
    /\ args.brewPackages[1] = args.brewPackages[3]
    /\ args.brewPackages[1] # args.brewPackages[2]
    /\ Len(Calls) = 3
    /\ Len(Logs) = 3

\* C10 as stated: whichever commands exit non-zero, the uninstall / reinstall
\* stage completes with one command and one success message per input item.
C10_FailuresNotSurfaced ==
    (IsLoopStage /\ Ended) =>
        /\ pc = "done"
        /\ Len(CallsAndLogs) = Len(ExpectedLoopRun)

\* C10 (amended): a non-zero exit of an uninstall / reinstall command is
\* surfaced: the stage rejects at that item, with no success message for it and
\* no command for any later item; the items before it each had their command
\* and message, and a stage rejects for no other reason.
C10_FailureHaltsStage ==
    IsLoopStage =>
        /\ (AnyFailed =>
              /\ pc \in {"await", "rejected"}
              /\ Last(trace).kind = "exit" /\ ~Last(trace).ok
              /\ Last(trace).body = <<Len(Calls)>>
              /\ Len(FailedExits) = 1
              /\ Len(Logs) = Len(Calls) - 1
              /\ IsPrefixOf(CallsAndLogs, ExpectedLoopRun))
        /\ (pc = "rejected" => AnyFailed)

\* The second of three uninstalls exited non-zero: two commands, one message,
\* the stage rejected.
C10_Witness ==
    /\ args.fn = "uninstallBrewPythonVersions"
    /\ pc = "rejected"
    /\ Len(args.pythonVersions) = 3
    /\ Len(Calls) = 2
    /\ Len(Logs) = 1
    /\ ~Last(trace).ok

\* The n-th call installs the n-th version: pyenv install -s <version>, the
\* version being the identifier without its python@ prefix.
InstallsInOrder ==
    /\ Len(Calls) <= Len(args.pythonVersions)
    /\ \A k \in 1..Len(Calls) :
          LET v == args.pythonVersions[k]
          IN  /\ Len(Calls[k].body) = 3
              /\ Calls[k].body[1] = "pyenv install -s "
              /\ Calls[k].body[3] = ""
              /\ HasPythonPrefix(v) => Calls[k].body[2] = SubSeq(v, 8, Len(v))

NoExitBeforeLastLaunch ==
    \A j, k \in 1..Len(trace) :
        (j < k /\ trace[k].kind = "call") => trace[j].kind # "exit"

IsInstall == args.fn = "installPyenvVersions"

\* C6 as stated: the stage completes only when every launched install has
\* settled.
C6_EndsOnlyWhenAllSettled ==
    (IsInstall /\ Ended) => running = {}

\* C6 (amended): one pyenv install -s <version> per version, all launched before
\* any settles; the stage returns only when all installs have succeeded, and
\* rejects as soon as one install fails, possibly with others still running;
\* nothing but installs is ever run (no roll back).
C6_AllLaunchedThenFailFast ==
    IsInstall =>
        /\ InstallsInOrder
        /\ NoExitBeforeLastLaunch
        /\ (pc \in {"awaitAll", "done", "rejected"} =>
              Len(Calls) = Len(args.pythonVersions))
        /\ (pc = "done" =>
              /\ running = {}
              /\ ~AnyFailed
              /\ Len(Logs) = 1
              /\ Last(trace).body = <<"Installed equivalent pyenv-managed Python versions.">>)
        /\ (pc = "awaitAll" /\ AnyFailed =>
              Len(FailedExits) = 1 /\ Last(trace).kind = "exit" /\ ~Last(trace).ok)
        /\ (pc = "rejected" => AnyFailed /\ Logs = <<>>)
        /\ ((Ended /\ ~AnyFailed) => pc = "done")

\* The stage has rejected after one install succeeded and one failed, while a
\* third is still running.
C6_Witness ==
    /\ IsInstall
    /\ pc = "rejected"
    /\ Len(Calls) = 3
    /\ Cardinality(running) = 1
    /\ \E k \in 1..Len(trace) : trace[k].kind = "exit" /\ trace[k].ok
    /\ Calls[1].body = <<"pyenv install -s ", <<"3", ".", "9">>, "">>

\* The non-empty lines of a text: the j-th one starts at the j-th position that
\* is no newline and begins the text or follows a newline, and runs up to the
\* next newline.
LineStarts(text) ==
    {k \in 1..Len(text) : text[k] # "\n" /\ (k = 1 \/ text[k - 1] = "\n")}

LineFrom(text, s) ==
    LET ends == {e \in s..Len(text) : \A k \in s..e : text[k] # "\n"}
    IN  SubSeq(text, s, Max(ends))

NonEmptyLines(text) ==
    LET starts == LineStarts(text)
        nth(j) == CHOOSE s \in starts : Cardinality({t \in starts : t <= s}) = j
    IN  [j \in 1..Cardinality(starts) |-> LineFrom(text, nth(j))]

IsFetch == args.fn = "fetchBrewFormulae"

\* C7: when every command succeeds fetchBrewFormulae returns one record per
\* non-empty line of the list output, in line order, the i-th being formulae[0]
\* of the i-th info result, after N+1 gateway calls made one at a time: the list,
\* then one info per name.
C7_OneRecordPerListedName ==
    IsFetch =>
        /\ OneAtATime
        /\ (pc = "done" =>
              LET names == NonEmptyLines(ExitOf(1).out)
              IN  /\ Len(Calls) = Len(names) + 1
                  /\ Calls[1].body = <<"brew list --formula">>
                  /\ \A k \in 1..Len(names) :
                        Calls[k + 1].body = <<"brew info ", names[k], " --json=v2 2>/dev/null">>
                  /\ Len(result) = Len(names)
                  /\ \A k \in 1..Len(names) :
                        LET fs == ExitOf(k + 1).out.formulae
                        IN  result[k] = IF fs = <<>> THEN "undefined" ELSE fs[1])
        /\ ((Ended /\ ~AnyFailed
                /\ \A k \in 1..Len(trace) :
                      (trace[k].kind = "exit" /\ trace[k].body # <<1>>) => trace[k].out.parsed)
              => pc = "done")

\* Two names around an empty line; the second info result holds two matches.
C7_Witness ==
    /\ IsFetch
    /\ pc = "done"
    /\ ExitOf(1).out = <<"a", "\n", "\n", "b">>
    /\ Len(Calls) = 3
    /\ ExitOf(3).out.formulae = <<"formula2", "formula1">>
    /\ result = <<"formula1", "formula2">>

IsSymlinks == args.fn = "createSymlinks"

\* The gateway calls that ran a symlink command (every call but pyenv rehash).
SymlinkCalls == SelectSeq(Calls, LAMBDA e : e.body # RehashCmd)

RehashCalls == SelectSeq(Calls, LAMBDA e : e.body = RehashCmd)

\* The n-th call exited non-zero.
Failed(n) == HasExited(n) /\ ~ExitOf(n).ok

SymlinkFailed ==
    \E n \in 1..Len(Calls) : Calls[n].body # RehashCmd /\ Failed(n)

\* C11 as stated: a symlink command that fails does not stop createSymlinks;
\* the stage still runs every symlink command of the list and then pyenv rehash.
C11_FailureSwallowed ==
    (IsSymlinks /\ Ended /\ SymlinkFailed) =>
        /\ Len(SymlinkCalls) = Len(args.symlinkCommands)
        /\ Len(RehashCalls) = 1

\* C11 (amended): a symlink command that exits non-zero halts createSymlinks:
\* the stage rejects at that command, with no log message for it, no later
\* symlink command executed and pyenv rehash never invoked; the commands before
\* it were each executed and logged.
C11_FailureHaltsSymlinks ==
    IsSymlinks =>
        /\ (AnyFailed =>
              /\ pc \in {"await", "awaitRehash", "rejected"}
              /\ Last(trace).kind = "exit" /\ ~Last(trace).ok
              /\ Last(trace).body = <<Len(Calls)>>
              /\ Len(FailedExits) = 1
              /\ IsPrefixOf(CallsAndLogs, ExpectedSymlinkRun))
        /\ (SymlinkFailed =>
              /\ pc \in {"await", "rejected"}
              /\ Len(RehashCalls) = 0
              /\ Len(SymlinkCalls) = i
              /\ Len(Logs) = i - 1
              /\ Failed(i))
        /\ ((Ended /\ SymlinkFailed) => pc = "rejected")
        /\ (pc = "rejected" => AnyFailed)

\* The first of three symlink commands exited non-zero: one call, no message,
\* no rehash, the stage rejected with two commands never run.
C11_Witness ==
    /\ IsSymlinks
    /\ pc = "rejected"
    /\ Len(args.symlinkCommands) = 3
    /\ Failed(1)
    /\ Len(Calls) = 1
    /\ Len(Logs) = 0

\* The k-th event is the exit of a call that failed: a non-zero exit of the
\* list or of an info call, or info output that is no JSON.
BadExit(k) ==
    /\ trace[k].kind = "exit"
    /\ \/ ~trace[k].ok
       \/ trace[k].body # <<1>> /\ ~trace[k].out.parsed

FetchFailed == \E k \in 1..Len(trace) : BadExit(k)

\* C12: when the list call or an info call of fetchBrewFormulae exits non-zero,
\* or an info call prints what is no JSON, the stage rejects at that call: the
\* failed call is the last gateway call ever made (no retry, no info call for a
\* later name) and the records fetched so far are not returned.
C12_FetchFailsWhole ==
    IsFetch =>
        /\ (FetchFailed =>
              /\ pc \in {"awaitList", "awaitInfo", "rejected"}
              /\ BadExit(Len(trace))
              /\ \A k \in 1..(Len(trace) - 1) : ~BadExit(k)
              /\ Last(trace).body = <<Len(Calls)>>
              /\ running = {}
              /\ result = Undefined)
        /\ ((Ended /\ FetchFailed) => pc = "rejected")
        /\ (pc = "rejected" => FetchFailed /\ result = Undefined)
        /\ (pc = "done" => ~FetchFailed)

\* Three names listed; the first info call gave a record, the second exited
\* non-zero: the stage rejected with one record fetched, nothing returned, and
\* the third name never queried.
C12_Witness ==
    /\ IsFetch
    /\ pc = "rejected"
    /\ ExitOf(1).out = <<"a", "\n", "b", "\n", "a">>
    /\ Len(Calls) = 3
    /\ ExitOf(2).ok
    /\ ~ExitOf(3).ok
    /\ Len(locals.formulae) = 1
    /\ result = Undefined

IsZshrc == args.fn = "updateZshrc"

Appends == OfKind(trace, "append")

AppendResults == OfKind(trace, "appended")

\* C8: updateZshrc appends the pyenv-init snippet to the given path exactly once
\* and then logs exactly one message; when the append fails the stage rejects and
\* logs nothing.
C8_AppendThenLog ==
    IsZshrc =>
        /\ Len(Appends) <= 1
        /\ (pc # "call" =>
              /\ Len(Appends) = 1
              /\ trace[1].kind = "append"
              /\ trace[1].body =
                    <<args.zshrcPath,
                      <<"",
                        "if command -v pyenv 1>/dev/null 2>&1; then",
                        "  eval \"$(pyenv init --path)\"",
                        "  eval \"$(pyenv init -)\"",
                        "fi",
                        "">>>>)
        /\ (pc = "done" =>
              /\ AppendResults # <<>> /\ AppendResults[1].ok
              /\ Len(Logs) = 1
              /\ Last(trace).kind = "log"
              /\ Last(trace).body =
                    <<"Updated .zshrc to prioritize pyenv over Brew-managed Python.">>)
        /\ (pc # "done" => Logs = <<>>)
        /\ ((AppendResults # <<>> /\ ~AppendResults[1].ok) => pc \in {"awaitAppend", "rejected"})
        /\ (pc = "rejected" => AppendResults # <<>> /\ ~AppendResults[1].ok)
        /\ Calls = <<>>

\* The append failed and the stage rejected without a log message.
C8_Witness ==
    /\ IsZshrc
    /\ pc = "rejected"
    /\ Len(Appends) = 1
    /\ ~AppendResults[1].ok
    /\ Logs = <<>>

(***************************************************************************)
(* getDaysOld(lastModified, currentTime = Date.now()) and                  *)
(* isCacheValid(lastModified, expiryDays).  Timestamps are integer         *)
(* milliseconds counted from an arbitrary origin; within the range of Date *)
(* the floating-point quotient floors to the integer quotient.             *)
(***************************************************************************)
MaxDays == 10

MsPerDay == 1000 * 60 * 60 * 24

getDaysOld(lastModified, currentTime) == (currentTime - lastModified) \div MsPerDay

isCacheValidInclusive(lastModified, expiryDays, now) ==
    getDaysOld(lastModified, now) <= expiryDays

\* now is what Date.now() returns when the default argument is evaluated
isCacheValid(lastModified, expiryDays, now) ==
    getDaysOld(lastModified, now) < expiryDays

NowValues == {MaxDays * MsPerDay, MaxDays * MsPerDay + 1}

CacheArgs ==
    {[now |-> now, lastModified |-> now - d * MsPerDay + e, expiryDays |-> x] :
        now \in NowValues, d \in (0 - MaxDays)..MaxDays, e \in {0 - 1, 0, 1},
        x \in (0 - 1)..(MaxDays + 1)}

CacheInit ==
    /\ args \in CacheArgs
    /\ pc = "call"
    /\ i = 0
    /\ trace = <<>>
    /\ running = {}
    /\ locals = <<>>
    /\ result = Undefined

CacheCall ==
    /\ pc = "call"
    /\ result' = [daysOld |-> getDaysOld(args.lastModified, args.now),
                  valid |-> isCacheValid(args.lastModified, args.expiryDays, args.now)]
    /\ pc' = "done"
    /\ UNCHANGED <<args, i, trace, running, locals>>

CacheSpec == CacheInit /\ [][CacheCall]_vars

\* C9: isCacheValid is true exactly when the whole number of days between
\* lastModified and now, rounded down (what getDaysOld returns), is strictly
\* less than expiryDays, for past and future timestamps alike.
C9_ValidIffFloorDaysBelowExpiry ==
    pc = "done" =>
        LET age == args.now - args.lastModified
            d == result.daysOld
        IN  /\ d * 86400000 <= age
            /\ age < (d + 1) * 86400000
            /\ result.valid = (d < args.expiryDays)
            /\ result.valid = (age < args.expiryDays * 86400000)
            /\ ((age = 7 * 86400000 /\ args.expiryDays = 7) => ~result.valid)
            /\ ((age = 2 * 86400000 /\ args.expiryDays = 7) => result.valid)
            /\ ((age = 10 * 86400000 /\ args.expiryDays = 7) => ~result.valid)

\* A cache exactly seven days old under an expiry of seven days is invalid.
C9_Witness ==
    /\ pc = "done"
    /\ args.now - args.lastModified = 7 * 86400000
    /\ args.expiryDays = 7
    /\ result = [daysOld |-> 7, valid |-> FALSE]

====
